---- MODULE Spec2Model ----
(***************************************************************************)
(* Model of src/main.py: the SMID Snapshot API (Yahoo primary with retry,  *)
(* FMP fallback, metric normalisation, composite score and star rating).   *)
(*                                                                         *)
(* Conventions.                                                            *)
(*  - A Python value is a tagged record: None, Num(n) or Str(s).           *)
(*  - Ratios, growth rates, margins, P/E, PEG, D/E and prices are held in   *)
(*    hundredths (0.12 is Num(12), 18 is Num(1800), 1.5 is Num(150)).       *)
(*  - A Python dict is a function from its keys to tagged values; the      *)
(*    empty dict is the function with the empty domain.                    *)
(*  - An exception message is the sequence of its words; "s in msg" is     *)
(*    containment of the word sequence s as a contiguous run of msg.       *)
(*  - time.sleep arguments are held in tenths of a second (1.5 s is 15).   *)
(***************************************************************************)
EXTENDS Integers, Sequences, FiniteSets, TLC

VARIABLES
    pc,          \* position of the request
    ticker,      \* path parameter of get_company
    fmp_key,     \* FMP_KEY: TRUE iff the FMP_API_KEY credential is configured
    max_retries, \* argument of fetch_yahoo_info_with_retry
    base_sleep,  \* argument of fetch_yahoo_info_with_retry (tenths of a second)
    attempt,     \* loop variable of fetch_yahoo_info_with_retry
    last_err,    \* last_err of fetch_yahoo_info_with_retry (message, or NoErr)
    calls,       \* log: the outcome of every t.get_info() call, in order
    sleeps,      \* log: the argument of every time.sleep() call, in order
    exc,         \* status of the HTTPException raised by the primary client, 0 if none
    use_fmp,     \* use_fmp of get_company
    info,        \* info of get_company (the payload that is normalised)
    fmp_calls,   \* log: the outcome of every FMP sub-request, in order
    profile,     \* profile of fetch_fmp_info
    ratios,      \* ratios of fetch_fmp_info
    http_error,  \* status of the HTTPException get_company ends with, 0 if none
    snapshot,    \* the Snapshot get_company returns, NoSnapshot before that
    m,           \* argument of score_company
    rating,      \* score_company(m) and stars_from_score of it, NoRating before that
    filing_calls, \* log: the outcome of every filings request, in order
    score_arg    \* argument of stars_from_score when it is called on its own

vars == <<pc, ticker, fmp_key, max_retries, base_sleep, attempt, last_err, calls,
          sleeps, exc, use_fmp, info, fmp_calls, profile, ratios, http_error, snapshot, m, rating,
          filing_calls, score_arg>>

----------------------------------------------------------------------------
(* Python values *)

None == [t |-> "None"]

Num(n) == [t |-> "num", v |-> n]

Str(s) == [t |-> "str", v |-> s]

\* bool(v) is False for None, 0 and ""
Falsy(v) == \/ v.t = "None"
            \/ (v.t = "num" /\ v.v = 0)
            \/ (v.t = "str" /\ v.v = "")

\* a or b
Or(a, b) == IF Falsy(a) THEN b ELSE a

EmptyDict == <<>>

\* d.get(k)
Get(d, k) == IF k \in DOMAIN d THEN d[k] ELSE None

\* bool(d) of a dict
DictTruthy(d) == DOMAIN d # {}

RECURSIVE Pow2(_)
Pow2(n) == IF n <= 0 THEN 1 ELSE 2 * Pow2(n - 1)

----------------------------------------------------------------------------
(* Utility functions: stars_from_score, score_company *)

\* The glyph characters: FilledStar stands for U+2605, EmptyStar for U+2606.
FilledStar == "F"

EmptyStar == "E"

\* c * n for a one-character string c
Repeat(c, n) == [i \in 1..n |-> c]

StarThresholdsShifted == <<<<80, 5>>, <<65, 4>>, <<40, 3>>, <<20, 2>>, <<0, 1>>>>

\* [(80,5),(60,4),(40,3),(20,2),(0,1)]
StarThresholds == <<<<80, 5>>, <<60, 4>>, <<40, 3>>, <<20, 2>>, <<0, 1>>>>

NoRating == [score |-> -1, stars |-> 0, stars_text |-> <<>>]

StarsTextOffByOne(s) == Repeat(FilledStar, s) \o Repeat(EmptyStar, 6 - s)

\* "\u2605"*s + "\u2606"*(5-s)
StarsText(s) == Repeat(FilledStar, s) \o Repeat(EmptyStar, 5 - s)

\* The first (th, s) of the table with score >= th; falling off the loop
\* returns None, rendered here as stars 0 with no glyph.
stars_from_score(score) ==
    LET hits == {i \in 1..Len(StarThresholds) : score >= StarThresholds[i][1]}
    IN  IF hits = {}
        THEN [stars |-> 0, stars_text |-> <<>>]
        ELSE LET i == CHOOSE j \in hits : \A k \in hits : j <= k
                 s == StarThresholds[i][2]
             IN  [stars |-> s, stars_text |-> StarsText(s)]

\* pe is not None and pe < bound
LessThan(v, bound) == v.t = "num" /\ v.v < bound

AtMostNoneAsZero(v, bound) == IF v.t = "num" THEN v.v <= bound ELSE 0 <= bound

\* x is not None and x <= bound
AtMost(v, bound) == v.t = "num" /\ v.v <= bound

\* (m.get(k) or 0) or 0
OrZero(v) == IF Falsy(v) THEN 0 ELSE v.v

PePoints(pe) == IF LessThan(pe, 1800) THEN 20 ELSE IF LessThan(pe, 2500) THEN 10 ELSE 0

PegPoints(peg) == IF AtMost(peg, 100) THEN 20 ELSE IF AtMost(peg, 150) THEN 10 ELSE 0

RoicPointsPercentUnits(roic) == IF roic >= 1200 THEN 20 ELSE IF roic >= 800 THEN 10 ELSE 0

RoicPoints(roic) == IF roic >= 12 THEN 20 ELSE IF roic >= 8 THEN 10 ELSE 0

OpmPointsStrict(opm) == IF opm >= 15 THEN 10 ELSE IF opm > 8 THEN 5 ELSE 0

OpmPoints(opm) == IF opm >= 15 THEN 10 ELSE IF opm >= 8 THEN 5 ELSE 0

RevPoints(rev) == IF rev >= 20 THEN 15 ELSE IF rev >= 12 THEN 8 ELSE 0

EpsPoints(eps) == IF eps >= 20 THEN 15 ELSE IF eps >= 12 THEN 8 ELSE 0

DePointsSwapped(de) == IF AtMost(de, 50) THEN 5 ELSE IF AtMost(de, 100) THEN 10 ELSE 0

DePoints(de) == IF AtMost(de, 50) THEN 10 ELSE IF AtMost(de, 100) THEN 5 ELSE 0

Min(a, b) == IF a <= b THEN a ELSE b

Max(a, b) == IF a >= b THEN a ELSE b

score_company(mm) ==
    LET score == PePoints(Get(mm, "pe_fwd"))
               + PegPoints(Get(mm, "peg_fwd"))
               + RoicPoints(OrZero(Get(mm, "roic")))
               + OpmPoints(OrZero(Get(mm, "op_margin")))
               + RevPoints(OrZero(Get(mm, "rev_yoy")))
               + EpsPoints(OrZero(Get(mm, "eps_yoy")))
               + DePoints(Get(mm, "de_ratio"))
    IN  Max(0, Min(100, score))

\* get_company, step 5: composite score, stars and glyph
Rate(mm) ==
    LET composite == score_company(mm)
        st == stars_from_score(composite)
    IN  [score |-> composite, stars |-> st.stars, stars_text |-> st.stars_text]

----------------------------------------------------------------------------
(* Yahoo (primary) with retry: fetch_yahoo_info_with_retry *)

\* sig in msg: the words of sig occur in msg as a contiguous run
Contains(msg, sig) ==
    \E i \in 0..(Len(msg) - Len(sig)) :
        \A j \in 1..Len(sig) : msg[i + j] = sig[j]

Sig429 == <<"429">>

SigTooMany == <<"Too", "Many", "Requests">>

SigCrumb == <<"Invalid", "Crumb">>

SigTimedOut == <<"timed", "out">>

SigMaxRetries == <<"Max", "retries">>

SigEOF == <<"EOF">>

TransientSignatures == {Sig429, SigTooMany, SigCrumb, SigTimedOut, SigMaxRetries, SigEOF}

RateLimitSignatures == {Sig429, SigTooMany, SigCrumb}

\* any(s in msg for s in (...))
IsTransient(msg) == \E s \in TransientSignatures : Contains(msg, s)

\* "429" in str(last_err) or "Too Many Requests" in ... or "Invalid Crumb" in ...
IsRateLimit(msg) == \E s \in RateLimitSignatures : Contains(msg, s)

ShouldRetryAlways(a, n, transient) == a < n - 1

ShouldRetryOffByOne(a, n, transient) == a < n /\ transient

\* attempt < max_retries - 1 and transient
ShouldRetry(a, n, transient) == a < n - 1 /\ transient

\* str(ValueError("Empty info payload"))
EmptyPayloadMsg == <<"Empty", "info", "payload">>

\* str(None), the message when the loop body never ran
NoErr == <<"None">>

DefaultMaxRetries == 4

DefaultBaseSleep == 15

BackoffLinear(base, a) == base * (a + 1)

\* base_sleep * (2 ** attempt)
Backoff(base, a) == base * Pow2(a)

\* Outcomes of t.get_info(): a returned dict, or an exception with a message
OkInfo(d) == [kind |-> "ok", payload |-> d, msg |-> <<>>]

ErrInfo(msg) == [kind |-> "err", payload |-> EmptyDict, msg |-> msg]

Msg429 == <<"HTTP", "Error", "429">>

MsgTooMany == <<"Too", "Many", "Requests", "for", "url">>

MsgCrumb == <<"Unauthorized", "Invalid", "Crumb">>

MsgTimedOut == <<"Read", "timed", "out">>

MsgMaxRetries == <<"Max", "retries", "exceeded">>

MsgEOF == <<"EOF", "occurred", "in", "violation", "of", "protocol">>

MsgGeneric == <<"Connection", "refused">>

EnterRetry ==
    /\ pc = "start"
    /\ attempt' = 0
    /\ last_err' = NoErr
    /\ pc' = IF max_retries > 0 THEN "loop" ELSE "after_loop"
    /\ UNCHANGED <<ticker, fmp_key, max_retries, base_sleep, calls, sleeps, exc,
                   use_fmp, info, fmp_calls, profile, ratios, http_error, snapshot,
                   m, rating>>
    /\ UNCHANGED <<filing_calls, score_arg>>

\* One iteration of the for loop, with o the outcome of t.get_info()
GetInfoAttempt(o) ==
    /\ pc = "loop"
    /\ calls' = Append(calls, o)
    /\ IF o.kind = "ok" /\ DictTruthy(o.payload)
       THEN /\ info' = o.payload
            /\ pc' = "returned"
            /\ UNCHANGED <<attempt, last_err, sleeps>>
       ELSE LET msg == IF o.kind = "ok" THEN EmptyPayloadMsg ELSE o.msg
            IN  /\ last_err' = msg
                /\ UNCHANGED info
                /\ IF ShouldRetry(attempt, max_retries, IsTransient(msg))
                   THEN /\ sleeps' = Append(sleeps, Backoff(base_sleep, attempt))
                        /\ attempt' = attempt + 1
                        /\ pc' = IF attempt + 1 < max_retries
                                 THEN "loop" ELSE "after_loop"
                   ELSE /\ pc' = "after_loop"
                        /\ UNCHANGED <<attempt, sleeps>>
    /\ UNCHANGED <<ticker, fmp_key, max_retries, base_sleep, exc, use_fmp,
                   fmp_calls, profile, ratios, http_error, snapshot, m, rating>>
    /\ UNCHANGED <<filing_calls, score_arg>>

RaisedStatusAnyTransient(msg) == IF IsTransient(msg) THEN 429 ELSE 502

\* The status of the HTTPException raised after the loop
RaisedStatus(msg) == IF IsRateLimit(msg) THEN 429 ELSE 502

RaiseAfterLoop ==
    /\ pc = "after_loop"
    /\ exc' = RaisedStatus(last_err)
    /\ pc' = "raised"
    /\ UNCHANGED <<ticker, fmp_key, max_retries, base_sleep, attempt, last_err,
                   calls, sleeps, use_fmp, info, fmp_calls, profile, ratios,
                   http_error, snapshot, m, rating>>
    /\ UNCHANGED <<filing_calls, score_arg>>

----------------------------------------------------------------------------
(* FMP (fallback provider): fmp_get, fetch_fmp_info *)

\* Outcomes of requests.get(...) + raise_for_status() + r.json(): an
\* exception, or JSON data that is a list of objects or a single object.
FmpErr(status) == [kind |-> "err", status |-> status, isList |-> FALSE, items |-> <<>>]

FmpList(items) == [kind |-> "ok", status |-> 0, isList |-> TRUE, items |-> items]

FmpObject(d) == [kind |-> "ok", status |-> 0, isList |-> FALSE, items |-> <<d>>]

\* The exception requests raises (it is not an HTTPException: status 0)
RequestsError == FmpErr(0)

\* fmp_get: HTTPException 503 when FMP_KEY is not set, else the response o
fmp_get(key, o) == IF ~key THEN FmpErr(503) ELSE o

\* x[0] if isinstance(x, list) and x else {}
FirstOrEmpty(data) ==
    IF data.isList /\ Len(data.items) > 0 THEN data.items[1] ELSE EmptyDict

\* The except clauses of the ratios and growth sub-requests
Absorbed(r) == IF r.kind = "err" THEN EmptyDict ELSE FirstOrEmpty(r)

FmpInfoPriceFromRatios(p, r, g) ==
    [longName                |-> Or(Get(p, "companyName"), Get(p, "symbol")),
     currentPrice            |-> Get(r, "price"),
     marketCap               |-> Get(p, "mktCap"),
     forwardPE               |-> Get(r, "priceEarningsRatioTTM"),
     pegRatio                |-> None,
     grossMargins            |-> Get(r, "grossProfitMarginTTM"),
     operatingMargins        |-> Get(r, "operatingProfitMarginTTM"),
     revenueGrowth           |-> Get(g, "revenueGrowthTTM"),
     earningsGrowth          |-> Get(g, "epsgrowthTTM"),
     returnOnEquity          |-> Get(r, "returnOnEquityTTM"),
     returnOnCapitalEmployed |-> Or(Get(r, "returnOnCapitalEmployedTTM"),
                                    Get(r, "returnOnInvestedCapitalTTM")),
     debtToEquity            |-> Get(r, "debtEquityRatioTTM"),
     cik                     |-> Get(p, "cik")]

FmpInfoWithPeg(p, r, g) ==
    [longName                |-> Or(Get(p, "companyName"), Get(p, "symbol")),
     currentPrice            |-> Get(p, "price"),
     marketCap               |-> Get(p, "mktCap"),
     forwardPE               |-> Get(r, "priceEarningsRatioTTM"),
     pegRatio                |-> Get(r, "priceEarningsToGrowthRatioTTM"),
     grossMargins            |-> Get(r, "grossProfitMarginTTM"),
     operatingMargins        |-> Get(r, "operatingProfitMarginTTM"),
     revenueGrowth           |-> Get(g, "revenueGrowthTTM"),
     earningsGrowth          |-> Get(g, "epsgrowthTTM"),
     returnOnEquity          |-> Get(r, "returnOnEquityTTM"),
     returnOnCapitalEmployed |-> Or(Get(r, "returnOnCapitalEmployedTTM"),
                                    Get(r, "returnOnInvestedCapitalTTM")),
     debtToEquity            |-> Get(r, "debtEquityRatioTTM"),
     cik                     |-> Get(p, "cik")]

\* The Yahoo-like dict built from profile, ratios and growth
FmpInfo(p, r, g) ==
    [longName                |-> Or(Get(p, "companyName"), Get(p, "symbol")),
     currentPrice            |-> Get(p, "price"),
     marketCap               |-> Get(p, "mktCap"),
     forwardPE               |-> Get(r, "priceEarningsRatioTTM"),
     pegRatio                |-> None,
     grossMargins            |-> Get(r, "grossProfitMarginTTM"),
     operatingMargins        |-> Get(r, "operatingProfitMarginTTM"),
     revenueGrowth           |-> Get(g, "revenueGrowthTTM"),
     earningsGrowth          |-> Get(g, "epsgrowthTTM"),
     returnOnEquity          |-> Get(r, "returnOnEquityTTM"),
     returnOnCapitalEmployed |-> Or(Get(r, "returnOnCapitalEmployedTTM"),
                                    Get(r, "returnOnInvestedCapitalTTM")),
     debtToEquity            |-> Get(r, "debtEquityRatioTTM"),
     cik                     |-> Get(p, "cik")]

ProfileErrorStatusPropagated(r) == IF r.status # 0 THEN r.status ELSE 502

\* raise HTTPException(status_code=502, ...) for any exception of the profile
\* sub-request r
ProfileErrorStatus(r) == 502

CaughtOnlyRateLimit(status) == status = 429

\* except HTTPException: every exception the primary client raises is caught
Caught(status) == status # 0

\* get_company after the primary client raised: the except clause sets
\* use_fmp, then fetch_fmp_info makes the profile sub-request, with o the
\* response of the provider. Any exception of the sub-request becomes 502.
FetchFmpProfile(o) ==
    /\ pc = "raised"
    /\ IF Caught(exc)
       THEN LET r == fmp_get(fmp_key, o)
            IN  /\ use_fmp' = TRUE
                /\ fmp_calls' = Append(fmp_calls, r)
                /\ IF r.kind = "err"
                   THEN /\ http_error' = ProfileErrorStatus(r)
                        /\ pc' = "error"
                        /\ UNCHANGED profile
                   ELSE /\ profile' = FirstOrEmpty(r)
                        /\ pc' = "fmp_ratios"
                        /\ UNCHANGED http_error
       ELSE /\ http_error' = exc
            /\ pc' = "error"
            /\ UNCHANGED <<use_fmp, fmp_calls, profile>>
    /\ UNCHANGED <<ticker, fmp_key, max_retries, base_sleep, attempt, last_err,
                   calls, sleeps, exc, info, ratios, snapshot, m, rating>>
    /\ UNCHANGED <<filing_calls, score_arg>>

FetchFmpRatios(o) ==
    /\ pc = "fmp_ratios"
    /\ LET r == fmp_get(fmp_key, o)
       IN  /\ fmp_calls' = Append(fmp_calls, r)
           /\ ratios' = Absorbed(r)
    /\ pc' = "fmp_growth"
    /\ UNCHANGED <<ticker, fmp_key, max_retries, base_sleep, attempt, last_err,
                   calls, sleeps, exc, use_fmp, info, profile, http_error,
                   snapshot, m, rating>>
    /\ UNCHANGED <<filing_calls, score_arg>>

FetchFmpGrowth(o) ==
    /\ pc = "fmp_growth"
    /\ LET r == fmp_get(fmp_key, o)
       IN  /\ fmp_calls' = Append(fmp_calls, r)
           /\ info' = FmpInfo(profile, ratios, Absorbed(r))
    /\ pc' = "fmp_done"
    /\ UNCHANGED <<ticker, fmp_key, max_retries, base_sleep, attempt, last_err,
                   calls, sleeps, exc, use_fmp, profile, ratios, http_error,
                   snapshot, m, rating>>
    /\ UNCHANGED <<filing_calls, score_arg>>

----------------------------------------------------------------------------
(* latest_filing and the endpoint get_company *)

Tickers == {"acme", "ACME"}

\* ticker.upper()
Upper(t) == CASE t = "acme" -> "ACME"
              [] OTHER      -> t

\* int(cik) of a string: the decimal strings of the model and their values;
\* any other string raises ValueError
StrToInt == [s \in {"0000123456", "123456"} |-> 123456]

IntParses(v) == v.t = "num" \/ (v.t = "str" /\ v.v \in DOMAIN StrToInt)

IntOf(v) == IF v.t = "num" THEN v.v ELSE StrToInt[v.v]

\* acc.replace("-", "")
StripDashes(acc) == CASE acc = "0000123456-24-000001" -> "000012345624000001"
                      [] acc = "0000123456-24-000002" -> "000012345624000002"
                      [] OTHER                        -> acc

\* Outcomes of the filings request: an exception (network, HTTP status, JSON
\* without the expected objects), or the "form" and "accessionNumber" lists
\* of filings.recent (a missing key is the empty list).
FilingErr == [kind |-> "err", forms |-> <<>>, accs |-> <<>>]

FilingOk(forms, accs) == [kind |-> "ok", forms |-> forms, accs |-> accs]

\* f"https://www.sec.gov/Archives/edgar/data/{int(cik)}/{acc}-index.html"
FilingUrl(n, acc) == [t |-> "url", cik |-> n, acc |-> acc]

\* An exception that leaves latest_filing instead of a value
Raised == [t |-> "raise"]

latest_filing_unguarded(cik, o) ==
    IF Falsy(cik) THEN None
    ELSE IF o.kind = "err" THEN Raised
    ELSE LET hits == {i \in 1..Len(o.forms) : o.forms[i] \in {"10-Q", "10-K"}}
         IN  IF hits = {} THEN None
             ELSE LET i == CHOOSE j \in hits : \A k \in hits : j <= k
                  IN  IF i > Len(o.accs) THEN Raised
                      ELSE IF ~IntParses(cik) THEN Raised
                      ELSE FilingUrl(IntOf(cik), StripDashes(o.accs[i]))

latest_filing(cik, o) ==
    IF Falsy(cik) THEN None
    ELSE IF o.kind = "err" THEN None
    ELSE LET hits == {i \in 1..Len(o.forms) : o.forms[i] \in {"10-Q", "10-K"}}
         IN  IF hits = {} THEN None
             ELSE LET i == CHOOSE j \in hits : \A k \in hits : j <= k
                  IN  IF i > Len(o.accs) THEN None         \* IndexError
                      ELSE IF ~IntParses(cik) THEN None    \* ValueError
                      ELSE FilingUrl(IntOf(cik), StripDashes(o.accs[i]))

\* Outcomes of t.fast_info.get("last_price"): an exception or a value
FastErr == [kind |-> "err", last_price |-> None]

FastOk(v) == [kind |-> "ok", last_price |-> v]

\* name on the primary path
YahooName(i, t) == Or(Or(Get(i, "longName"), Get(i, "shortName")), Str(Upper(t)))

\* price on the primary path, with f the outcome of the fast_info call
YahooPrice(i, f) ==
    LET price == Or(Get(i, "currentPrice"), Get(i, "regularMarketPrice"))
    IN  IF price = None
        THEN (IF f.kind = "err" THEN None ELSE f.last_price)
        ELSE price

\* name on the fallback path
FmpName(i, t) == Or(Get(i, "longName"), Str(Upper(t)))

\* step 3 of get_company
BuildMetrics(i) ==
    [pe_fwd       |-> Get(i, "forwardPE"),
     pe           |-> Get(i, "PE"),
     peg_fwd      |-> Get(i, "pegRatio"),
     gross_margin |-> Get(i, "grossMargins"),
     op_margin    |-> Get(i, "operatingMargins"),
     rev_yoy      |-> Get(i, "revenueGrowth"),
     eps_yoy      |-> Get(i, "earningsGrowth"),
     roic         |-> Or(Or(Get(i, "returnOnCapitalEmployed"),
                            Get(i, "returnOnInvestedCapitalTTM")),
                         Get(i, "returnOnEquity")),
     de_ratio     |-> Get(i, "debtToEquity")]

YahooNote == "Yahoo primary"

FmpNote == "FMP fallback (Yahoo blocked/crumb/rate limit)"

ProviderNoteSwapped(fmp) == IF fmp THEN YahooNote ELSE FmpNote

\* step 6 of get_company
ProviderNote(fmp) == IF ~fmp THEN YahooNote ELSE FmpNote

NoSnapshot == [ticker |-> ""]

\* Steps 2 to 6 of get_company once a payload is in info, with f the outcome
\* of the fast_info call and fo the outcome of the filings request.
BuildSnapshot(f, fo) ==
    /\ pc \in {"returned", "fmp_done"}
    /\ LET name    == IF use_fmp THEN FmpName(info, ticker) ELSE YahooName(info, ticker)
           price   == IF use_fmp THEN Get(info, "currentPrice") ELSE YahooPrice(info, f)
           mcap    == Get(info, "marketCap")
           metrics == BuildMetrics(info)
           filing  == latest_filing(Get(info, "cik"), fo)
           r       == Rate(metrics)
       IN  IF filing = Raised
           THEN \* an exception of step 4 is not caught by get_company
                /\ http_error' = 500
                /\ pc' = "error"
                /\ UNCHANGED snapshot
           ELSE /\ snapshot' = [ticker          |-> Upper(ticker),
                                name            |-> name,
                                price           |-> price,
                                market_cap      |-> mcap,
                                metrics         |-> metrics,
                                composite_score |-> r.score,
                                stars           |-> r.stars,
                                stars_text      |-> r.stars_text,
                                filings         |-> [latest_10q_or_10k |-> filing],
                                notes           |-> <<ProviderNote(use_fmp), "Data cached 1h.">>]
                /\ pc' = "done"
                /\ UNCHANGED http_error
    /\ filing_calls' = IF Falsy(Get(info, "cik")) THEN filing_calls
                       ELSE Append(filing_calls, fo)
    /\ UNCHANGED <<ticker, fmp_key, max_retries, base_sleep, attempt, last_err,
                   calls, sleeps, exc, use_fmp, info, fmp_calls, profile, ratios,
                   m, rating>>
    /\ UNCHANGED score_arg

\* stars_from_score applied to score_arg
StarsStep ==
    /\ pc = "stars"
    /\ rating' = [score |-> score_arg, stars |-> stars_from_score(score_arg).stars,
                  stars_text |-> stars_from_score(score_arg).stars_text]
    /\ pc' = "starred"
    /\ UNCHANGED <<ticker, fmp_key, max_retries, base_sleep, attempt, last_err,
                   calls, sleeps, exc, use_fmp, info, fmp_calls, profile, ratios,
                   http_error, snapshot, m, filing_calls, score_arg>>

\* score_company and stars_from_score applied to the metrics record m
ScoreStep ==
    /\ pc = "score"
    /\ rating' = Rate(m)
    /\ pc' = "scored"
    /\ UNCHANGED <<ticker, fmp_key, max_retries, base_sleep, attempt, last_err,
                   calls, sleeps, exc, use_fmp, info, fmp_calls, profile, ratios,
                   http_error, snapshot, m>>
    /\ UNCHANGED <<filing_calls, score_arg>>

----------------------------------------------------------------------------
(* Inputs *)

\* d with key k set to v
With(d, k, v) == [x \in (DOMAIN d) \cup {k} |-> IF x = k THEN v ELSE d[x]]

\* The payload of the end-to-end scenario
Acme ==
    [longName |-> Str("Acme Corp"), currentPrice |-> Num(5000),
     marketCap |-> Num(1000000000), forwardPE |-> Num(1500), pegRatio |-> Num(90),
     operatingMargins |-> Num(18), revenueGrowth |-> Num(25),
     earningsGrowth |-> Num(22), returnOnCapitalEmployed |-> Num(14),
     debtToEquity |-> Num(30), cik |-> Str("0000123456")]

\* A payload whose keys are present and whose values are all None
AllNone ==
    [longName |-> None, shortName |-> None, currentPrice |-> None,
     regularMarketPrice |-> None, marketCap |-> None, forwardPE |-> None,
     pegRatio |-> None, operatingMargins |-> None, revenueGrowth |-> None,
     earningsGrowth |-> None, returnOnCapitalEmployed |-> None,
     returnOnEquity |-> None, debtToEquity |-> None, cik |-> None]

\* A payload with middling metrics
Middling ==
    [shortName |-> Str("Mid Co"), regularMarketPrice |-> Num(1250),
     marketCap |-> Num(300000000), forwardPE |-> Num(2200), PE |-> Num(2400),
     pegRatio |-> Num(140), grossMargins |-> Num(35), operatingMargins |-> Num(9),
     revenueGrowth |-> Num(13), earningsGrowth |-> Num(-4),
     returnOnEquity |-> Num(9), debtToEquity |-> Num(120), cik |-> Num(123456)]

YahooPayloads ==
    {Acme, AllNone, Middling, [shortName |-> Str("Acme")]}
    \cup {With(With(Acme, "longName", a), "shortName", b) :
             a \in {None, Str(""), Str("Acme Corp")}, b \in {None, Str("Acme")}}
    \cup {With(With(Acme, "currentPrice", a), "regularMarketPrice", b) :
             a \in {None, Num(0), Num(5000)}, b \in {None, Num(0), Num(4990)}}
    \cup {With(With(With(Acme, "returnOnCapitalEmployed", a),
                    "returnOnInvestedCapitalTTM", b), "returnOnEquity", c) :
             a \in {None, Num(0), Num(14)}, b \in {None, Num(0), Num(-5)},
             c \in {None, Num(9)}}
    \cup {With(Acme, "cik", c) :
             c \in {None, Str(""), Num(0), Num(123456), Str("12ab")}}

\* get_info outcomes of a request to the endpoint
RequestOutcomes ==
    {OkInfo(d) : d \in YahooPayloads}
    \cup {OkInfo(EmptyDict), ErrInfo(Msg429), ErrInfo(MsgTimedOut), ErrInfo(MsgGeneric)}

\* get_info outcomes of a call of the primary client on its own
RetryOutcomes ==
    {OkInfo(Acme), OkInfo(EmptyDict)}
    \cup {ErrInfo(msg) : msg \in {Msg429, MsgTooMany, MsgCrumb, MsgTimedOut,
                                  MsgMaxRetries, MsgEOF, MsgGeneric}}

AcmeProfile ==
    [companyName |-> Str("Acme Corporation"), symbol |-> Str("ACME"),
     price |-> Num(5100), mktCap |-> Num(1000000001), cik |-> Str("0000123456")]

ProfileResponses ==
    {RequestsError, FmpList(<<>>), FmpObject([ErrorMessage |-> Str("Limit Reach")]),
     FmpList(<<AcmeProfile>>),
     FmpList(<<[symbol |-> Str("ACME"), price |-> Num(0)], AcmeProfile>>),
     FmpList(<<With(AcmeProfile, "cik", None)>>)}

BestRatios ==
    [priceEarningsRatioTTM |-> Num(1700), priceEarningsToGrowthRatioTTM |-> Num(90),
     grossProfitMarginTTM |-> Num(40),
     operatingProfitMarginTTM |-> Num(16), returnOnEquityTTM |-> Num(11),
     returnOnCapitalEmployedTTM |-> Num(13), returnOnInvestedCapitalTTM |-> Num(12),
     debtEquityRatioTTM |-> Num(40)]

RatiosRecords ==
    {[priceEarningsRatioTTM |-> Num(3000), debtEquityRatioTTM |-> Num(200)]}
    \cup {With(With(With(BestRatios, "returnOnCapitalEmployedTTM", a),
                    "returnOnInvestedCapitalTTM", b), "returnOnEquityTTM", c) :
             a \in {None, Num(0), Num(13)}, b \in {None, Num(0), Num(12)},
             c \in {None, Num(11)}}

RatiosResponses ==
    {RequestsError, FmpList(<<>>)} \cup {FmpList(<<r>>) : r \in RatiosRecords}

GrowthResponses ==
    {RequestsError, FmpList(<<>>),
     FmpList(<<[revenueGrowthTTM |-> Num(21), epsgrowthTTM |-> Num(23)]>>),
     FmpList(<<[revenueGrowthTTM |-> Num(12), epsgrowthTTM |-> None]>>)}

FastOutcomes == {FastErr, FastOk(None), FastOk(Num(4900))}

FilingOutcomes ==
    {FilingErr, FilingOk(<<>>, <<>>),
     FilingOk(<<"8-K", "10-K", "10-Q">>,
              <<"0000123456-24-000003", "0000123456-24-000001", "0000123456-24-000002">>),
     FilingOk(<<"10-Q">>, <<>>)}

PeValues == {None, Num(-100), Num(0), Num(1799), Num(1800), Num(2499), Num(2500)}

PegValues == {None, Num(-10), Num(0), Num(100), Num(101), Num(150), Num(151)}

RoicValues == {None, Num(-5), Num(0), Num(7), Num(8), Num(11), Num(12)}

OpmValues == {None, Num(-5), Num(0), Num(7), Num(8), Num(14), Num(15)}

GrowthValues == {None, Num(-5), Num(0), Num(11), Num(12), Num(19), Num(20)}

DeValues == {None, Num(-10), Num(0), Num(50), Num(51), Num(100), Num(101)}

\* Arguments of score_company: the empty dict and every record over the values
MetricsInputs ==
    {EmptyDict}
    \cup [pe_fwd : PeValues, peg_fwd : PegValues, roic : RoicValues,
          op_margin : OpmValues, rev_yoy : GrowthValues, eps_yoy : GrowthValues,
          de_ratio : DeValues]

\* Largest max_retries argument explored
MaxRetriesArg == 4

BaseSleeps == {DefaultBaseSleep, 5}

----------------------------------------------------------------------------
(* Specifications *)

Idle ==
    /\ attempt = 0
    /\ last_err = NoErr
    /\ calls = <<>>
    /\ sleeps = <<>>
    /\ exc = 0
    /\ use_fmp = FALSE
    /\ info = EmptyDict
    /\ fmp_calls = <<>>
    /\ profile = EmptyDict
    /\ ratios = EmptyDict
    /\ http_error = 0
    /\ snapshot = NoSnapshot
    /\ rating = NoRating
    /\ filing_calls = <<>>
    /\ score_arg = 0

\* A request GET /company/{ticker}: the primary client runs with its defaults
Init ==
    /\ pc = "start"
    /\ ticker \in Tickers
    /\ fmp_key \in BOOLEAN
    /\ max_retries = DefaultMaxRetries
    /\ base_sleep = DefaultBaseSleep
    /\ m = EmptyDict
    /\ Idle

Next ==
    \/ EnterRetry
    \/ \E o \in RequestOutcomes : GetInfoAttempt(o)
    \/ RaiseAfterLoop
    \/ \E o \in ProfileResponses : FetchFmpProfile(o)
    \/ \E o \in RatiosResponses : FetchFmpRatios(o)
    \/ \E o \in GrowthResponses : FetchFmpGrowth(o)
    \/ \E f \in FastOutcomes, fo \in FilingOutcomes : BuildSnapshot(f, fo)

Spec == Init /\ [][Next]_vars

\* A call of fetch_yahoo_info_with_retry with any arguments
InitRetry ==
    /\ pc = "start"
    /\ ticker = "acme"
    /\ fmp_key = FALSE
    /\ max_retries \in 0..MaxRetriesArg
    /\ base_sleep \in BaseSleeps
    /\ m = EmptyDict
    /\ Idle

NextRetry ==
    \/ EnterRetry
    \/ \E o \in RetryOutcomes : GetInfoAttempt(o)
    \/ RaiseAfterLoop

SpecRetry == InitRetry /\ [][NextRetry]_vars

\* A call of score_company and stars_from_score on any metrics record
InitScore ==
    /\ pc = "score"
    /\ ticker = "acme"
    /\ fmp_key = FALSE
    /\ max_retries = DefaultMaxRetries
    /\ base_sleep = DefaultBaseSleep
    /\ m \in MetricsInputs
    /\ Idle

NextScore == ScoreStep

SpecScore == InitScore /\ [][NextScore]_vars

\* A call of stars_from_score on any score of the range of score_company
InitStars ==
    /\ pc = "stars"
    /\ ticker = "acme"
    /\ fmp_key = FALSE
    /\ max_retries = DefaultMaxRetries
    /\ base_sleep = DefaultBaseSleep
    /\ m = EmptyDict
    /\ attempt = 0
    /\ last_err = NoErr
    /\ calls = <<>>
    /\ sleeps = <<>>
    /\ exc = 0
    /\ use_fmp = FALSE
    /\ info = EmptyDict
    /\ fmp_calls = <<>>
    /\ profile = EmptyDict
    /\ ratios = EmptyDict
    /\ http_error = 0
    /\ snapshot = NoSnapshot
    /\ rating = NoRating
    /\ filing_calls = <<>>
    /\ score_arg \in 0..100

NextStars == StarsStep

SpecStars == InitStars /\ [][NextStars]_vars

\* The primary client runs to completion: every step that is enabled is
\* eventually taken (get_info returns or raises, time.sleep returns).
SpecRetryFair == SpecRetry /\ WF_vars(NextRetry)

----------------------------------------------------------------------------
(* Properties *)

Terminal == {"done", "error"}

\* The get_info call returned an empty payload without raising
IsEmptyOk(o) == o.kind = "ok" /\ o.payload = EmptyDict

\* The signatures the specification lists as transient
ClaimedTransient ==
    {<<"429">>, <<"Too", "Many", "Requests">>, <<"Invalid", "Crumb">>,
     <<"timed", "out">>, <<"Max", "retries">>, <<"EOF">>}

\* The signatures of a rate limit or a rejected crumb
ClaimedRateLimit == {<<"429">>, <<"Too", "Many", "Requests">>, <<"Invalid", "Crumb">>}

\* Every attempt made so far raised an error whose message contains sig
AllFailWith(sig) ==
    /\ Len(calls) > 0
    /\ \A i \in 1..Len(calls) : calls[i].kind = "err" /\ Contains(calls[i].msg, sig)

\* The sleeps are base_sleep * 2^n for n = 0, 1, ... and strictly increasing
ExponentialSleeps ==
    /\ \A n \in 1..Len(sleeps) : sleeps[n] = base_sleep * Pow2(n - 1)
    /\ \A n \in 1..(Len(sleeps) - 1) : sleeps[n] < sleeps[n + 1]

\* C1: an attempt whose get_info call returns an empty payload, with attempts
\* remaining, is followed by a sleep of base_sleep * 2^attempt and a retry.
C1_EmptyPayloadRetried ==
    \A i \in 1..Len(calls) :
        (IsEmptyOk(calls[i]) /\ i - 1 < max_retries - 1)
            => /\ Len(sleeps) >= i
               /\ sleeps[i] = base_sleep * Pow2(i - 1)
               /\ (Len(calls) > i \/ pc = "loop")

\* C2: when the primary client failed and no FMP credential is configured,
\* the request ends with status 503, and a 503 only occurs after the
\* fallback was invoked.
C2_MissingCredentialIs503 ==
    /\ (pc = "error" /\ exc # 0 /\ ~fmp_key) => http_error = 503
    /\ http_error = 503 => Len(fmp_calls) > 0

\* C3 (as stated): if every attempt fails with one transient signature, the
\* client makes exactly max_retries attempts, sleeps base_sleep * 2^n between
\* them, and raises status 429.
C3_AlwaysRateLimited ==
    \A sig \in ClaimedTransient :
        (pc = "raised" /\ AllFailWith(sig))
            => /\ Len(calls) = max_retries
               /\ Len(sleeps) = max_retries - 1
               /\ ExponentialSleeps
               /\ exc = 429

\* C3 (amended): if every attempt fails with one transient signature, the
\* client makes exactly max_retries attempts, sleeps base_sleep * 2^n between
\* them, and raises status 429 when the last message contains 429, Too Many
\* Requests or Invalid Crumb, and status 502 otherwise.
C3_PersistentTransient ==
    \A sig \in ClaimedTransient :
        (pc = "raised" /\ AllFailWith(sig))
            => /\ Len(calls) = max_retries
               /\ Len(sleeps) = max_retries - 1
               /\ ExponentialSleeps
               /\ LET last == calls[Len(calls)].msg
                  IN  exc = IF \E s \in ClaimedRateLimit : Contains(last, s)
                            THEN 429 ELSE 502

C3_Witness ==
    /\ pc = "raised"
    /\ max_retries = 4
    /\ AllFailWith(<<"timed", "out">>)
    /\ Len(calls) = 4
    /\ sleeps = <<15, 30, 60>>
    /\ exc = 502

\* C4: an attempt that fails with an error matching no transient signature is
\* the last attempt, and no sleep follows it.
C4_NonTransientStops ==
    \A i \in 1..Len(calls) :
        (calls[i].kind = "err"
         /\ \A s \in ClaimedTransient : ~Contains(calls[i].msg, s))
            => /\ Len(calls) = i
               /\ Len(sleeps) = i - 1
               /\ pc # "loop"

C4_Witness ==
    /\ pc = "raised"
    /\ max_retries = 4
    /\ calls = <<ErrInfo(MsgGeneric)>>
    /\ sleeps = <<>>

\* C5: once the primary client has raised, the fallback client is invoked;
\* the request ends in an error only if the fallback itself failed, and with
\* a Snapshot whenever the fallback succeeded.
C5_PrimaryFailureFallsBack ==
    /\ pc = "raised" => ENABLED (\E o \in ProfileResponses : FetchFmpProfile(o))
    /\ (exc # 0 /\ pc \in Terminal)
           => /\ use_fmp
              /\ Len(fmp_calls) >= 1
              /\ (http_error # 0 => fmp_calls[1].kind = "err")
              /\ (fmp_calls[1].kind = "ok"
                     => snapshot # NoSnapshot /\ http_error = 0 /\ pc = "done")

C5_Witness ==
    /\ pc = "done"
    /\ exc = 502
    /\ Len(calls) = 1
    /\ use_fmp
    /\ snapshot # NoSnapshot

\* C6: a returned Snapshot takes its name, price, market cap, metrics and
\* identifier from the payload of one provider only, the primary's if the
\* primary client returned and the fallback's otherwise, and its note names
\* that provider.
C6_SingleProvider ==
    pc = "done" =>
        LET mt == snapshot.metrics
            fl == snapshot.filings.latest_10q_or_10k
        IN  IF exc = 0
            THEN LET src == calls[Len(calls)].payload
                 IN  /\ snapshot.notes[1] = YahooNote
                     /\ snapshot.name \in {Get(src, "longName"), Get(src, "shortName"),
                                           Str(Upper(ticker))}
                     /\ snapshot.price \in {Get(src, "currentPrice"),
                                            Get(src, "regularMarketPrice"), None}
                                           \cup {f.last_price : f \in FastOutcomes}
                     /\ snapshot.market_cap = Get(src, "marketCap")
                     /\ mt.pe_fwd = Get(src, "forwardPE")
                     /\ mt.pe = Get(src, "PE")
                     /\ mt.peg_fwd = Get(src, "pegRatio")
                     /\ mt.gross_margin = Get(src, "grossMargins")
                     /\ mt.op_margin = Get(src, "operatingMargins")
                     /\ mt.rev_yoy = Get(src, "revenueGrowth")
                     /\ mt.eps_yoy = Get(src, "earningsGrowth")
                     /\ mt.de_ratio = Get(src, "debtToEquity")
                     /\ mt.roic \in {Get(src, "returnOnCapitalEmployed"),
                                     Get(src, "returnOnInvestedCapitalTTM"),
                                     Get(src, "returnOnEquity")}
                     /\ (fl # None => fl.cik = IntOf(Get(src, "cik")))
            ELSE LET p == FirstOrEmpty(fmp_calls[1])
                     r == Absorbed(fmp_calls[2])
                     g == Absorbed(fmp_calls[3])
                 IN  /\ snapshot.notes[1] = FmpNote
                     /\ snapshot.name \in {Get(p, "companyName"), Get(p, "symbol"),
                                           Str(Upper(ticker))}
                     /\ snapshot.price = Get(p, "price")
                     /\ snapshot.market_cap = Get(p, "mktCap")
                     /\ mt.pe_fwd = Get(r, "priceEarningsRatioTTM")
                     /\ mt.pe = None
                     /\ mt.peg_fwd = None
                     /\ mt.gross_margin = Get(r, "grossProfitMarginTTM")
                     /\ mt.op_margin = Get(r, "operatingProfitMarginTTM")
                     /\ mt.rev_yoy = Get(g, "revenueGrowthTTM")
                     /\ mt.eps_yoy = Get(g, "epsgrowthTTM")
                     /\ mt.de_ratio = Get(r, "debtEquityRatioTTM")
                     /\ mt.roic \in {Get(r, "returnOnCapitalEmployedTTM"),
                                     Get(r, "returnOnInvestedCapitalTTM"),
                                     Get(r, "returnOnEquityTTM")}
                     /\ (fl # None => fl.cik = IntOf(Get(p, "cik")))

C6_Witness ==
    /\ pc = "done"
    /\ exc = 429
    /\ calls[1] = ErrInfo(Msg429)
    /\ snapshot.notes[1] = FmpNote
    /\ snapshot.price = Num(5100)
    /\ snapshot.metrics.pe_fwd = Num(1700)
    /\ snapshot.metrics.rev_yoy = Num(21)

\* C7: a failed profile sub-request fails the fallback with status 502; when
\* the profile succeeds the fallback raises nothing, its profile-derived
\* fields are the profile's, and the fields of a failed ratios or growth
\* sub-request are absent.
C7_FallbackPartialFailure ==
    /\ (Len(fmp_calls) >= 1 /\ fmp_calls[1].kind = "err")
           => /\ pc = "error"
              /\ http_error = 502
              /\ Len(fmp_calls) = 1
              /\ snapshot = NoSnapshot
    /\ (Len(fmp_calls) >= 1 /\ fmp_calls[1].kind = "ok") => http_error = 0
    /\ pc = "fmp_done"
           => LET p == IF fmp_calls[1].isList /\ Len(fmp_calls[1].items) > 0
                       THEN fmp_calls[1].items[1] ELSE EmptyDict
              IN  /\ Len(fmp_calls) = 3
                  /\ info.longName = Or(Get(p, "companyName"), Get(p, "symbol"))
                  /\ info.currentPrice = Get(p, "price")
                  /\ info.marketCap = Get(p, "mktCap")
                  /\ info.cik = Get(p, "cik")
                  /\ fmp_calls[2].kind = "err"
                         => /\ info.forwardPE = None
                            /\ info.grossMargins = None
                            /\ info.operatingMargins = None
                            /\ info.returnOnEquity = None
                            /\ info.returnOnCapitalEmployed = None
                            /\ info.debtToEquity = None
                  /\ fmp_calls[3].kind = "err"
                         => /\ info.revenueGrowth = None
                            /\ info.earningsGrowth = None

C7_Witness ==
    /\ pc = "fmp_done"
    /\ fmp_calls[1] = FmpList(<<AcmeProfile>>)
    /\ fmp_calls[2].kind = "err"
    /\ fmp_calls[3].kind = "ok"
    /\ info.currentPrice = Num(5100)
    /\ info.forwardPE = None
    /\ info.revenueGrowth = Num(21)

\* The primary provider's answers in the end-to-end scenario
Scenario == <<OkInfo(EmptyDict), OkInfo(EmptyDict), OkInfo(Acme)>>

\* Every get_info call of the request got the scenario's answer
FollowsScenario ==
    /\ Len(calls) \in 1..Len(Scenario)
    /\ \A i \in 1..Len(calls) : calls[i] = Scenario[i]

\* C8: a request whose primary provider answers empty, empty, then the full
\* best-threshold payload ends with a Snapshot of that payload with score
\* 100, 5 stars and the note "Yahoo primary".
C8_EmptyTwiceThenSuccess ==
    (pc \in Terminal /\ FollowsScenario)
        => /\ snapshot # NoSnapshot
           /\ snapshot.name = Str("Acme Corp")
           /\ snapshot.composite_score = 100
           /\ snapshot.stars = 5
           /\ snapshot.notes[1] = "Yahoo primary"

\* C9: for every metrics record the score is an integer in [0,100], the star
\* rating is in [1,5] and the glyph has exactly 5 characters.
C9_RatingBounds ==
    pc = "scored"
        => /\ rating.score \in 0..100
           /\ rating.stars \in 1..5
           /\ Len(rating.stars_text) = 5

C9_Witness ==
    /\ pc = "scored"
    /\ m # EmptyDict
    /\ m.pe_fwd = Num(-100)
    /\ m.peg_fwd = None
    /\ m.roic = Num(0)
    /\ m.de_ratio = Num(101)
    /\ rating.score = 20
    /\ rating.stars = 2

ScoredKeys == {"pe_fwd", "peg_fwd", "roic", "op_margin", "rev_yoy", "eps_yoy", "de_ratio"}

\* C10 (as stated): for a metrics record with every field absent the score
\* is 0, the star rating is 1 and the glyph is five empty stars.
C10_AllAbsentEmptyGlyph ==
    (pc = "scored" /\ \A k \in ScoredKeys : Get(m, k) = None)
        => /\ rating.score = 0
           /\ rating.stars = 1
           /\ rating.stars_text = <<EmptyStar, EmptyStar, EmptyStar, EmptyStar, EmptyStar>>

\* C10 (amended): for a metrics record with every field absent the score is
\* 0, the star rating is 1 and the glyph is one filled star followed by four
\* empty stars.
C10_AllAbsent ==
    (pc = "scored" /\ \A k \in ScoredKeys : Get(m, k) = None)
        => /\ rating.score = 0
           /\ rating.stars = 1
           /\ rating.stars_text = <<FilledStar, EmptyStar, EmptyStar, EmptyStar, EmptyStar>>

C10_Witness ==
    /\ pc = "scored"
    /\ m # EmptyDict
    /\ \A k \in ScoredKeys : m[k] = None
    /\ rating.score = 0

\* Every scored field of mm meets its best threshold
AllBest(mm) ==
    /\ Get(mm, "pe_fwd").t = "num" /\ Get(mm, "pe_fwd").v < 1800
    /\ Get(mm, "peg_fwd").t = "num" /\ Get(mm, "peg_fwd").v <= 100
    /\ Get(mm, "roic").t = "num" /\ Get(mm, "roic").v >= 12
    /\ Get(mm, "op_margin").t = "num" /\ Get(mm, "op_margin").v >= 15
    /\ Get(mm, "rev_yoy").t = "num" /\ Get(mm, "rev_yoy").v >= 20
    /\ Get(mm, "eps_yoy").t = "num" /\ Get(mm, "eps_yoy").v >= 20
    /\ Get(mm, "de_ratio").t = "num" /\ Get(mm, "de_ratio").v <= 50

\* C11: for a metrics record with every scored field at its best threshold
\* the score is 100, the star rating is 5 and the glyph is five filled stars.
C11_AllBest ==
    (pc = "scored" /\ AllBest(m))
        => /\ rating.score = 100
           /\ rating.stars = 5
           /\ rating.stars_text = <<FilledStar, FilledStar, FilledStar, FilledStar, FilledStar>>

C11_Witness ==
    /\ pc = "scored"
    /\ m # EmptyDict
    /\ AllBest(m)
    /\ m.pe_fwd = Num(1799)
    /\ m.peg_fwd = Num(100)
    /\ m.de_ratio = Num(50)
    /\ rating.score = 100

\* The metrics for which a lower value is better
LowerIsBetter == {"pe_fwd", "peg_fwd", "de_ratio"}

\* The values of the model for the scored field k
FieldValues(k) ==
    CASE k = "pe_fwd"    -> PeValues
      [] k = "peg_fwd"   -> PegValues
      [] k = "roic"      -> RoicValues
      [] k = "op_margin" -> OpmValues
      [] k = "de_ratio"  -> DeValues
      [] OTHER           -> GrowthValues

\* w is v changed in the improving direction of field k (absent to present,
\* or a present value to one at least as good)
Improves(k, v, w) ==
    /\ w.t = "num"
    /\ \/ v.t = "None"
       \/ (k \in LowerIsBetter /\ w.v <= v.v)
       \/ (k \notin LowerIsBetter /\ w.v >= v.v)

\* C12: changing one metric in its improving direction, the others held
\* fixed, never lowers the score.
C12_Monotonic ==
    pc = "scored" =>
        \A k \in DOMAIN m :
            \A w \in FieldValues(k) :
                Improves(k, m[k], w)
                    => score_company([m EXCEPT ![k] = w]) >= rating.score

C12_Witness ==
    /\ pc = "scored"
    /\ m # EmptyDict
    /\ m.de_ratio = Num(101)
    /\ m.pe_fwd = None
    /\ m.roic = Num(11)
    /\ rating.score = 10
    /\ score_company([m EXCEPT !["de_ratio"] = Num(50)]) = 20
    /\ score_company([m EXCEPT !["pe_fwd"] = Num(2500)]) = 10

\* The filings response o has no usable 10-Q or 10-K entry
NoUsableFiling(o) ==
    \/ o.kind = "err"
    \/ \A i \in 1..Len(o.forms) : o.forms[i] \notin {"10-Q", "10-K"}
    \/ \E i \in 1..Len(o.forms) :
          /\ o.forms[i] \in {"10-Q", "10-K"}
          /\ \A j \in 1..(i - 1) : o.forms[j] \notin {"10-Q", "10-K"}
          /\ i > Len(o.accs)

\* C13: the filing lookup never ends a request in an error and never changes
\* the provider: without an identifier, or when the filings call fails or
\* returns malformed data, the filing reference is absent and the Snapshot of
\* the provider already selected is returned.
C13_FilingAbsorbed ==
    /\ http_error # 0 => filing_calls = <<>>
    /\ pc = "done" =>
          LET fl  == snapshot.filings.latest_10q_or_10k
              cik == Get(info, "cik")
          IN  /\ fl.t \in {"None", "url"}
              /\ cik = None => (fl = None /\ filing_calls = <<>>)
              /\ (filing_calls # <<>> /\ NoUsableFiling(filing_calls[1])) => fl = None
              /\ (cik.t = "str" /\ cik.v = "12ab") => fl = None
              /\ use_fmp = (exc # 0)
              /\ snapshot.notes[1] = IF exc = 0 THEN "Yahoo primary"
                                     ELSE "FMP fallback (Yahoo blocked/crumb/rate limit)"
              /\ snapshot.market_cap = Get(info, "marketCap")

C13_Witness ==
    /\ pc = "done"
    /\ exc = 0
    /\ Get(info, "cik") = Str("12ab")
    /\ Len(filing_calls) = 1
    /\ filing_calls[1].kind = "ok"
    /\ ~NoUsableFiling(filing_calls[1])
    /\ snapshot.filings.latest_10q_or_10k = None
    /\ snapshot.notes[1] = "Yahoo primary"

\* Every metric of the Snapshot is absent
AllMetricsAbsent == \A k \in DOMAIN snapshot.metrics : snapshot.metrics[k] = None

\* The fallback sub-request r succeeded with no data
EmptyData(r) == r.kind = "ok" /\ (~r.isList \/ r.items = <<>>)

\* C14: a request ends in an error only when the primary client and then the
\* fallback client failed, and the error is 502; when the primary fails and
\* the fallback's sub-requests succeed with empty data the request returns a
\* Snapshot with every metric absent, score 0 and 1 star.
C14_ErrorOnlyWhenBothFail ==
    /\ http_error # 0
           => /\ pc = "error"
              /\ exc # 0
              /\ Len(fmp_calls) >= 1
              /\ fmp_calls[1].kind = "err"
              /\ http_error = 502
    /\ (pc \in Terminal /\ exc # 0 /\ Len(fmp_calls) >= 1 /\ fmp_calls[1].kind = "ok")
           => pc = "done" /\ snapshot # NoSnapshot
    /\ (pc = "done" /\ exc # 0 /\ \A i \in 1..3 : EmptyData(fmp_calls[i]))
           => /\ AllMetricsAbsent
              /\ snapshot.composite_score = 0
              /\ snapshot.stars = 1

C14_Witness ==
    /\ pc = "done"
    /\ exc = 429
    /\ fmp_calls = <<FmpList(<<>>), FmpList(<<>>), FmpList(<<>>)>>
    /\ AllMetricsAbsent
    /\ snapshot.composite_score = 0
    /\ snapshot.name = Str("ACME")

\* The contribution of one metric by the threshold table: best points at
\* or beyond the best threshold, mid points at or beyond the mid threshold,
\* 0 otherwise and for an absent metric. strict is TRUE for "<" thresholds.
TablePoints(v, lower, strict, best, bestPts, mid, midPts) ==
    IF v.t # "num" THEN 0
    ELSE LET meets(th) == IF lower
                          THEN (IF strict THEN v.v < th ELSE v.v <= th)
                          ELSE v.v >= th
         IN  IF meets(best) THEN bestPts ELSE IF meets(mid) THEN midPts ELSE 0

TableSum(mm) ==
      TablePoints(Get(mm, "pe_fwd"),    TRUE,  TRUE,  1800, 20, 2500, 10)
    + TablePoints(Get(mm, "peg_fwd"),   TRUE,  FALSE, 100,  20, 150,  10)
    + TablePoints(Get(mm, "roic"),      FALSE, FALSE, 12,   20, 8,    10)
    + TablePoints(Get(mm, "op_margin"), FALSE, FALSE, 15,   10, 8,    5)
    + TablePoints(Get(mm, "rev_yoy"),   FALSE, FALSE, 20,   15, 12,   8)
    + TablePoints(Get(mm, "eps_yoy"),   FALSE, FALSE, 20,   15, 12,   8)
    + TablePoints(Get(mm, "de_ratio"),  TRUE,  FALSE, 50,   10, 100,  5)

\* C15: the score is the sum of the per-metric contributions of the threshold
\* table, an absent metric contributing 0, clamped to [0,100].
C15_ThresholdTable ==
    pc = "scored" =>
        rating.score = (IF TableSum(m) > 100 THEN 100
                        ELSE IF TableSum(m) < 0 THEN 0 ELSE TableSum(m))

C15_Witness ==
    /\ pc = "scored"
    /\ m # EmptyDict
    /\ m.pe_fwd = Num(2499)
    /\ m.peg_fwd = Num(150)
    /\ m.roic = Num(8)
    /\ m.op_margin = Num(8)
    /\ m.rev_yoy = Num(12)
    /\ m.eps_yoy = None
    /\ m.de_ratio = Num(100)
    /\ rating.score = 48

\* C16: for every score in [0,100] the star rating is 5 iff score >= 80, 4 iff
\* 60 <= score < 80, 3 iff 40 <= score < 60, 2 iff 20 <= score < 40 and 1 iff
\* score < 20, and the glyph is that many filled stars followed by empty ones
\* up to five characters.
C16_StarMapping ==
    pc = "starred" =>
        /\ rating.score = score_arg
        /\ (rating.stars = 5 <=> score_arg >= 80)
        /\ (rating.stars = 4 <=> (60 <= score_arg /\ score_arg < 80))
        /\ (rating.stars = 3 <=> (40 <= score_arg /\ score_arg < 60))
        /\ (rating.stars = 2 <=> (20 <= score_arg /\ score_arg < 40))
        /\ (rating.stars = 1 <=> score_arg < 20)
        /\ Len(rating.stars_text) = 5
        /\ \A i \in 1..5 :
              rating.stars_text[i] = IF i <= rating.stars THEN "F" ELSE "E"

C16_Witness ==
    /\ pc = "starred"
    /\ score_arg = 60
    /\ rating.stars = 4
    /\ rating.stars_text = <<"F", "F", "F", "F", "E">>

\* The first of a, b, c that is present
FirstPresent(a, b, c) == IF a # None THEN a ELSE IF b # None THEN b ELSE c

\* C17: the roic metric is the return on capital employed whenever it is
\* present (any value, 0 and negative included), else the return on invested
\* capital when present, else the return on equity, on both paths.
C17_RoicPreference ==
    pc = "done" =>
        IF exc = 0
        THEN LET src == calls[Len(calls)].payload
             IN  snapshot.metrics.roic =
                     FirstPresent(Get(src, "returnOnCapitalEmployed"),
                                  Get(src, "returnOnInvestedCapitalTTM"),
                                  Get(src, "returnOnEquity"))
        ELSE LET r == Absorbed(fmp_calls[2])
             IN  snapshot.metrics.roic =
                     FirstPresent(Get(r, "returnOnCapitalEmployedTTM"),
                                  Get(r, "returnOnInvestedCapitalTTM"),
                                  Get(r, "returnOnEquityTTM"))

\* The message of the last error the primary client observed
LastObserved ==
    IF calls = <<>> THEN <<"None">>
    ELSE IF calls[Len(calls)].kind = "ok" THEN <<"Empty", "info", "payload">>
    ELSE calls[Len(calls)].msg

\* C18: when the primary client gives up it raises 429 if the last error
\* observed matches a rate-limit or crumb signature and 502 otherwise,
\* whatever the earlier attempts' errors were.
C18_LastErrorDecides ==
    pc = "raised" =>
        exc = IF \E s \in ClaimedRateLimit : Contains(LastObserved, s)
              THEN 429 ELSE 502

C18_Witness ==
    /\ pc = "raised"
    /\ Len(calls) = 3
    /\ calls[1] = ErrInfo(Msg429)
    /\ calls[2] = ErrInfo(MsgCrumb)
    /\ calls[3] = ErrInfo(MsgGeneric)
    /\ exc = 502

RetryEnded == pc \in {"returned", "raised"}

RetryBounds ==
    /\ Len(calls) <= (IF max_retries > 0 THEN max_retries ELSE 0)
    /\ Len(sleeps) <= (IF max_retries > 0 THEN max_retries - 1 ELSE 0)
    /\ Len(sleeps) <= Len(calls)
    /\ RetryEnded
           => /\ (calls # <<>> => Len(sleeps) = Len(calls) - 1)
              /\ (calls = <<>> => sleeps = <<>>)
              /\ (pc = "returned"
                     => /\ info # EmptyDict
                        /\ info = calls[Len(calls)].payload
                        /\ exc = 0)
              /\ (pc = "raised" => exc \in {429, 502})

C20_FallbackAtMost80 ==
    (pc = "done" /\ snapshot.notes[1] = "FMP fallback (Yahoo blocked/crumb/rate limit)")
        => /\ snapshot.metrics.peg_fwd = None
           /\ snapshot.composite_score <= 80

\* C20 (amended): on the fallback path the forward PEG is absent and the
\* composite score is at most 90.
C20_FallbackAtMost90 ==
    (pc = "done" /\ snapshot.notes[1] = "FMP fallback (Yahoo blocked/crumb/rate limit)")
        => /\ snapshot.metrics.peg_fwd = None
           /\ snapshot.composite_score <= 90

C20_Witness ==
    /\ pc = "done"
    /\ exc # 0
    /\ snapshot.notes[1] = "FMP fallback (Yahoo blocked/crumb/rate limit)"
    /\ snapshot.metrics.peg_fwd = None
    /\ snapshot.composite_score = 90

====
